---- MODULE Spec2Model ----
(***************************************************************************)
(* Model of the quiz bot of src/app.py: the polling loop main(), the       *)
(* command and answer handlers and the registry user_states.               *)
(*                                                                         *)
(* The steps of the model are those of main(): a call of get_updates, the  *)
(* head of the for loop with the assignment of offset, the handling of the *)
(* update the loop is at, and the sleep at the end of a batch.  The        *)
(* handlers are operators on a record                                      *)
(*   [us |-> the registry, log |-> the effects so far, in order]           *)
(* so that the order of the effects inside one handler stays visible.      *)
(* Python indexes from 0 and TLA+ from 1: questions[i] is questions[i+1].  *)
(***************************************************************************)
EXTENDS Integers, Sequences, FiniteSets, TLC

\* ------------------------------------------------------------------ bounds
\* Longest question file the model loads.
MaxQ == 2
\* Largest number of updates one getUpdates call returns.
MaxBatch == 2
\* Number of updates the platform delivers in one behaviour.
MaxUpdates == 3

\* --------------------------------------------------------------- constants
\* A message older than this many seconds is skipped (time.time() - 10).
StaleAfter == 10
\* The identifier of the first update the platform delivers.
FirstUpdateId == 1

\* ------------------------------------------------------------------ inputs
\* Telegram users; a private chat has the identifier of its user.
Users == {1, 2}
\* Group chats have negative identifiers, distinct from every user's.
Groups == {-1}
\* The values chat_id takes: the keys the registry can have.
Keys == Users \cup Groups

\* offset = None, before the first update.
None == -1000

\* The date every update carries and the values time.time() returns when the
\* update is handled: at StaleAfter seconds of age a message is still fresh,
\* one second later it is stale.
Dates == {1}
Clock == {1 + StaleAfter, 2 + StaleAfter}

\* Texts of messages; NoText is a message without a "text" key (a photo).
NoText == "<no text>"
Texts == {"/start", "/quiz", "hi", NoText}
\* callback_data of a button press: an option of a question, or a string
\* that is no option of any question.
Answers == {"a", "b", "zzz"}

\* Question i of the file: two options, the correct one alternating.
Question(i) ==
  [question |-> i, options |-> <<"a", "b">>,
   answer |-> IF i % 2 = 1 THEN "a" ELSE "b"]

\* The states of questions.json at the time of a load: missing
\* (FileNotFoundError), not JSON (json.JSONDecodeError), or a list of n
\* well-formed questions, n = 0 being the empty list.
Files ==
  {[error |-> e, content |-> <<>>] : e \in {"FileNotFoundError", "JSONDecodeError"}}
  \cup {[error |-> "", content |-> [i \in 1..n |-> Question(i)]] : n \in 0..MaxQ}

\* The file is not read unless start_quiz runs.
NotRead == [error |-> "not read", content |-> <<>>]

\* ---------------------------------------------------------------- messages
\* The text of a message the bot sends, by the place that builds it.
Text(kind, score, total, answer, question) ==
  [kind |-> kind, score |-> score, total |-> total, answer |-> answer,
   question |-> question]

Greeting == Text("greeting", 0, 0, "", 0)
Unavailable == Text("unavailable", 0, 0, "", 0)
GameOverPrompt == Text("game_over_prompt", 0, 0, "", 0)
Correct == Text("correct", 0, 0, "", 0)
Incorrect(correct_answer) == Text("incorrect", 0, 0, correct_answer, 0)
Summary(score, total) == Text("summary", score, total, "", 0)
QuestionText(q) == Text("question", 0, 0, "", q)
NoMessage == Text("", 0, 0, "", 0)

\* One effect of a handler.  op is the HTTP method called or the statement
\* executed on the registry; ok is the outcome of an HTTP call.
Event(op, chat_id, text, markup, ok) ==
  [op |-> op, chat_id |-> chat_id, text |-> text, markup |-> markup, ok |-> ok]

\* The number of HTTP calls in a log: the next call is call number + 1.
RECURSIVE Calls(_)
Calls(log) ==
  IF log = <<>> THEN 0
  ELSE (IF log[1].op \in {"sendMessage", "answerCallbackQuery", "getUpdates"}
        THEN 1 ELSE 0) + Calls(Tail(log))

\* The outcomes of the HTTP calls of one handler, by call number.
MaxCalls == 3
Outcomes == [1..MaxCalls -> BOOLEAN]

\* ---------------------------------------------------------------- handlers
\* The state a handler works on: the registry, the effects so far and the
\* exception that has left the handler uncaught, "" while there is none.
HandlerState(us) == [us |-> us, log |-> <<>>, error |-> ""]

\* An exception nothing catches: it unwinds through main().
Raise(st, e) == [st EXCEPT !.error = e]

\* get_questions() catching FileNotFoundError alone.
get_questions_one_except(file) ==
  IF file.error = "FileNotFoundError"
  THEN [is_none |-> TRUE, value |-> <<>>, error |-> ""]
  ELSE IF file.error = "JSONDecodeError"
  THEN [is_none |-> TRUE, value |-> <<>>, error |-> "JSONDecodeError"]
  ELSE [is_none |-> FALSE, value |-> file.content, error |-> ""]

\* get_questions(): the list, or None on the two exceptions it catches;
\* error is the exception it lets through, "" as it lets none through.
get_questions(file) ==
  IF file.error \in {"FileNotFoundError", "JSONDecodeError"}
  THEN [is_none |-> TRUE, value |-> <<>>, error |-> ""]
  ELSE [is_none |-> FALSE, value |-> file.content, error |-> ""]

\* `if questions:` -- None and the empty list are both false.
Truthy(questions) == ~questions.is_none /\ Len(questions.value) > 0

\* send_message() without its except clause: the exception of a failed POST
\* leaves it.
send_message_raises(st, chat_id, text, markup, net) ==
  LET sent == [st EXCEPT !.log =
                 Append(@, Event("sendMessage", chat_id, text, markup,
                                 net[Calls(st.log) + 1]))]
  IN IF net[Calls(st.log) + 1] THEN sent ELSE Raise(sent, "RequestException")

\* send_message(): one POST; an exception is logged and swallowed, so the
\* outcome changes nothing but the log.
send_message(st, chat_id, text, markup, net) ==
  [st EXCEPT !.log =
     Append(@, Event("sendMessage", chat_id, text, markup, net[Calls(st.log) + 1]))]

\* user_states.clear() in place of the del statement.
Delete_all(us, chat_id) == <<>>

\* del user_states[chat_id]
Delete(us, chat_id) == [k \in DOMAIN us \ {chat_id} |-> us[k]]

\* user_states[chat_id] = session
Store(us, chat_id, session) ==
  [k \in DOMAIN us \cup {chat_id} |-> IF k = chat_id THEN session ELSE us[k]]

\* A statement on the registry, recorded in the log.
Mutate(st, op, chat_id, us) ==
  [st EXCEPT !.us = us,
             !.log = Append(@, Event(op, chat_id, NoMessage, <<>>, TRUE))]

\* ask_question() starting the quiz over at its end instead of removing the
\* session.
ask_question_wraps(st, chat_id, net) ==
  LET state == st.us[chat_id]
      questions == state.questions
  IN IF state.current_question >= Len(questions)
     THEN LET sent == send_message(st, chat_id,
                                   Summary(state.score, Len(questions)), <<>>, net)
          IN Mutate(sent, "reset", chat_id,
                    [sent.us EXCEPT ![chat_id].current_question = 0,
                                    ![chat_id].score = 0])
     ELSE send_message(st, chat_id,
                       QuestionText(questions[state.current_question + 1].question),
                       <<questions[state.current_question + 1].options>>, net)

\* ask_question() reporting the index reached in place of the score.
ask_question_reports_index(st, chat_id, net) ==
  LET state == st.us[chat_id]
      questions == state.questions
  IN IF state.current_question >= Len(questions)
     THEN LET sent == send_message(st, chat_id,
                                   Summary(state.current_question, Len(questions)),
                                   <<>>, net)
          IN Mutate(sent, "del", chat_id, Delete(sent.us, chat_id))
     ELSE send_message(st, chat_id,
                       QuestionText(questions[state.current_question + 1].question),
                       <<questions[state.current_question + 1].options>>, net)

\* ask_question() with > for >=: the quiz ends one answer late.
ask_question_late(st, chat_id, net) ==
  LET state == st.us[chat_id]
      questions == state.questions
  IN IF state.current_question > Len(questions)
     THEN LET sent == send_message(st, chat_id,
                                   Summary(state.score, Len(questions)), <<>>, net)
          IN Mutate(sent, "del", chat_id, Delete(sent.us, chat_id))
     ELSE IF state.current_question = Len(questions) THEN Raise(st, "IndexError")
     ELSE send_message(st, chat_id,
                       QuestionText(questions[state.current_question + 1].question),
                       <<questions[state.current_question + 1].options>>, net)

\* ask_question() removing the session before it sends the summary.
ask_question_deletes_first(st, chat_id, net) ==
  LET state == st.us[chat_id]
      questions == state.questions
  IN IF state.current_question >= Len(questions)
     THEN send_message(Mutate(st, "del", chat_id, Delete(st.us, chat_id)),
                       chat_id, Summary(state.score, Len(questions)), <<>>, net)
     ELSE send_message(st, chat_id,
                       QuestionText(questions[state.current_question + 1].question),
                       <<questions[state.current_question + 1].options>>, net)

\* ask_question(): the summary and the removal of the session when the index
\* has reached the end of the list, the question with its row of buttons
\* otherwise.  user_states[chat_id] raises KeyError without a session.
ask_question(st, chat_id, net) ==
  IF chat_id \notin DOMAIN st.us THEN Raise(st, "KeyError")
  ELSE
  LET state == st.us[chat_id]
      question_index == state.current_question
      questions == state.questions
  IN IF question_index >= Len(questions)
     THEN LET sent == send_message(st, chat_id,
                                   Summary(state.score, Len(questions)), <<>>, net)
          IN Mutate(sent, "del", chat_id, Delete(sent.us, chat_id))
     ELSE LET question_data == questions[question_index + 1]
          IN send_message(st, chat_id, QuestionText(question_data.question),
                          <<question_data.options>>, net)

\* The effect of user_states[chat_id] = ... as the log names it: the session
\* of a key that had none, or the replacement of the one it had.
Assigns(us, chat_id) == IF chat_id \in DOMAIN us THEN "replace" ELSE "create"

\* start_quiz() sending the first question a second time when the first
\* send has failed.
start_quiz_sends_again(st, chat_id, file, net) ==
  LET questions == get_questions(file)
      created == Mutate(st, Assigns(st.us, chat_id), chat_id,
                        Store(st.us, chat_id,
                              [score |-> 0, current_question |-> 0,
                               questions |-> questions.value]))
      asked == ask_question(created, chat_id, net)
  IN IF questions.error # "" THEN Raise(st, questions.error)
     ELSE IF Truthy(questions)
     THEN IF asked.log[Len(asked.log)].ok THEN asked
          ELSE ask_question(asked, chat_id, [i \in 1..MaxCalls |-> TRUE])
     ELSE send_message(st, chat_id, Unavailable, <<>>, net)

\* start_quiz() going on with the session the key has, if it has one.
start_quiz_resumes(st, chat_id, file, net) ==
  LET questions == get_questions(file)
  IN IF questions.error # "" THEN Raise(st, questions.error)
     ELSE IF Truthy(questions)
     THEN IF chat_id \in DOMAIN st.us
          THEN ask_question(Mutate(st, "replace", chat_id, st.us), chat_id, net)
          ELSE ask_question(
                 Mutate(st, "create", chat_id,
                        Store(st.us, chat_id,
                              [score |-> 0, current_question |-> 0,
                               questions |-> questions.value])),
                 chat_id, net)
     ELSE send_message(st, chat_id, Unavailable, <<>>, net)

\* start_quiz(): a fresh session, whatever the key had, and its first
\* question, or the apology.
start_quiz(st, chat_id, file, net) ==
  LET questions == get_questions(file)
  IN IF questions.error # "" THEN Raise(st, questions.error)
     ELSE IF Truthy(questions)
     THEN ask_question(
            Mutate(st, Assigns(st.us, chat_id), chat_id,
                   Store(st.us, chat_id,
                         [score |-> 0, current_question |-> 0,
                          questions |-> questions.value])),
            chat_id, net)
     ELSE send_message(st, chat_id, Unavailable, <<>>, net)

\* check_answer() giving two points for a correct answer.
check_answer_two_points(st, chat_id, answer, correct_answer, net) ==
  IF answer = correct_answer
  THEN send_message(
         Mutate(st, "score += 1", chat_id, [st.us EXCEPT ![chat_id].score = @ + 2]),
         chat_id, Correct, <<>>, net)
  ELSE send_message(st, chat_id, Incorrect(correct_answer), <<>>, net)

\* check_answer() with the comparison inverted.
check_answer_inverted(st, chat_id, answer, correct_answer, net) ==
  IF answer # correct_answer
  THEN send_message(
         Mutate(st, "score += 1", chat_id, [st.us EXCEPT ![chat_id].score = @ + 1]),
         chat_id, Correct, <<>>, net)
  ELSE send_message(st, chat_id, Incorrect(correct_answer), <<>>, net)

\* The comparison of handle_answer(): a point and the praise for the
\* correct answer, the correct answer for any other string.
check_answer(st, chat_id, answer, correct_answer, net) ==
  IF answer = correct_answer
  THEN send_message(
         Mutate(st, "score += 1", chat_id, [st.us EXCEPT ![chat_id].score = @ + 1]),
         chat_id, Correct, <<>>, net)
  ELSE send_message(st, chat_id, Incorrect(correct_answer), <<>>, net)

\* handle_answer() asking the same question again after an incorrect answer.
answer_in_progress_asks_again(st, chat_id, answer, net) ==
  LET state == st.us[chat_id]
      question_data == state.questions[state.current_question + 1]
      checked == check_answer(st, chat_id, answer, question_data.answer, net)
  IN IF answer = question_data.answer
     THEN ask_question(
            Mutate(checked, "current_question += 1", chat_id,
                   [checked.us EXCEPT ![chat_id].current_question = @ + 1]),
            chat_id, net)
     ELSE ask_question(checked, chat_id, net)

\* handle_answer() from `state = user_states[chat_id]` on: the answer to the
\* question the session is at, the increment of the index and ask_question.
\* questions[question_index] raises IndexError past the end of the list.
answer_in_progress(st, chat_id, answer, net) ==
  LET state == st.us[chat_id]
      question_index == state.current_question
  IN IF question_index >= Len(state.questions) THEN Raise(st, "IndexError")
     ELSE LET question_data == state.questions[question_index + 1]
              correct_answer == question_data.answer
              checked == check_answer(st, chat_id, answer, correct_answer, net)
              advanced ==
                Mutate(checked, "current_question += 1", chat_id,
                       [checked.us EXCEPT ![chat_id].current_question = @ + 1])
          IN ask_question(advanced, chat_id, net)

\* handle_answer() without the return after the prompt: it goes on to
\* user_states[chat_id], a KeyError.
handle_answer_falls_through(st, chat_id, answer, net) ==
  LET acked == [st EXCEPT !.log =
                  Append(@, Event("answerCallbackQuery", chat_id, NoMessage, <<>>,
                                  net[Calls(st.log) + 1]))]
      looked == Mutate(acked, "lookup", chat_id, acked.us)
  IN IF chat_id \notin DOMAIN looked.us
     THEN Raise(send_message(looked, chat_id, GameOverPrompt, <<>>, net), "KeyError")
     ELSE answer_in_progress(looked, chat_id, answer, net)

\* handle_answer() giving up when the acknowledgement fails.
handle_answer_needs_ack(st, chat_id, answer, net) ==
  LET acked == [st EXCEPT !.log =
                  Append(@, Event("answerCallbackQuery", chat_id, NoMessage, <<>>,
                                  net[Calls(st.log) + 1]))]
      looked == Mutate(acked, "lookup", chat_id, acked.us)
  IN IF ~net[Calls(st.log) + 1] THEN acked
     ELSE IF chat_id \notin DOMAIN looked.us
     THEN send_message(looked, chat_id, GameOverPrompt, <<>>, net)
     ELSE answer_in_progress(looked, chat_id, answer, net)

\* handle_answer(): the acknowledgement, whose failure is logged and
\* swallowed, then the lookup: the prompt without a session, the answer
\* with one.
handle_answer(st, chat_id, answer, net) ==
  LET acked == [st EXCEPT !.log =
                  Append(@, Event("answerCallbackQuery", chat_id, NoMessage, <<>>,
                                  net[Calls(st.log) + 1]))]
      looked == Mutate(acked, "lookup", chat_id, acked.us)
  IN IF chat_id \notin DOMAIN looked.us
     THEN send_message(looked, chat_id, GameOverPrompt, <<>>, net)
     ELSE answer_in_progress(looked, chat_id, answer, net)

\* ----------------------------------------------------------------- updates
\* An update of the platform.  A message has a chat, a date and possibly a
\* text; a callback_query has a sender and its data.  from of a message and,
\* of a callback_query, the message that carries the button pressed (here
\* the question it asks) and its date are delivered too, and main() does
\* not read them.  An update of another kind (an edited message, say) has
\* neither key main() looks for.
Updates ==
  [kind : {"message"}, chat : Keys, from : Users, date : Dates,
   text : Texts, data : {""}, message : {0}]
  \cup
  [kind : {"callback_query"}, chat : {0}, from : Users, date : Dates,
   text : {NoText}, data : Answers, message : 1..MaxQ]
  \cup
  [kind : {"edited_message"}, chat : {0}, from : {0}, date : Dates,
   text : {NoText}, data : {""}, message : {0}]

\* A message is in the private chat of its sender or in a group.
WellFormed(u) == u.kind = "message" => (u.chat \in Groups \/ u.chat = u.from)

Messages == {u \in Updates : u.kind = "message" /\ WellFormed(u)}
Callbacks == {u \in Updates : u.kind = "callback_query"}
Others == {u \in Updates : u.kind \notin {"message", "callback_query"}}

NoUpdate ==
  [kind |-> "none", chat |-> 0, from |-> 0, date |-> 0, text |-> NoText, data |-> "",
   message |-> 0]

\* The update u is older than the threshold at time t.
Older(u, t) == t - u.date > StaleAfter

\* The comparison of the staleness filter turned round.
Stale_reversed(u, now) == u.date > now - StaleAfter

\* `message_data["date"] < time.time() - 10`
Stale(u, now) == u.date < now - StaleAfter

\* The body of the for loop of main() for one update, after the assignment
\* of offset: the effects on the registry and the log.
Dispatch(us, u, now, file, net) ==
  LET st == HandlerState(us)
  IN IF u.kind = "message"
     THEN IF Stale(u, now) THEN st
          ELSE IF u.text = NoText THEN st
          ELSE IF u.text = "/start"
               THEN send_message(st, u.chat, Greeting, <<>>, net)
          ELSE IF u.text = "/quiz"
               THEN start_quiz(st, u.chat, file, net)
          ELSE st
     ELSE IF u.kind = "callback_query"
     THEN handle_answer(st, u.from, u.data, net)
     ELSE st

\* ------------------------------------------------------- what was observed
\* The sendMessage calls of a log, and the summaries among them sent to k.
Sends(log) == SelectSeq(log, LAMBDA e : e.op = "sendMessage")
SummariesTo(log, k) ==
  SelectSeq(log, LAMBDA e :
    e.op = "sendMessage" /\ e.chat_id = k /\ e.text.kind = "summary")

\* u, handled at time t with the file in state file, starts a quiz: a fresh
\* /quiz and a list with at least one question.
Starts(u, t, file) ==
  /\ u.kind = "message"
  /\ u.text = "/quiz"
  /\ ~Older(u, t)
  /\ file.error = ""
  /\ file.content # <<>>

\* u is an answer to a quiz in progress: a button pressed by a user whose
\* identifier has a session.
InProgress(us, u) == u.kind = "callback_query" /\ u.from \in DOMAIN us

\* Whether the answer of u is the correct one of the question its quiz is at.
IsCorrect(us, u) ==
  LET state == us[u.from]
  IN u.data = state.questions[state.current_question + 1].answer

\* The record of the quizzes, by registry key: for the quiz started last
\* under the key, the number of its questions, the answers given to it so
\* far (TRUE for a correct one) and the summaries sent for it.
NextHistory(history, us, u, t, file, log) ==
  IF Starts(u, t, file)
  THEN [k \in DOMAIN history \cup {u.chat} |->
          IF k = u.chat
          THEN [n |-> Len(file.content), answers |-> <<>>,
                summaries |-> SummariesTo(log, k)]
          ELSE history[k]]
  ELSE [k \in DOMAIN history |->
          [history[k] EXCEPT
             !.answers = IF InProgress(us, u) /\ u.from = k
                         THEN Append(@, IsCorrect(us, u)) ELSE @,
             !.summaries = @ \o SummariesTo(log, k)]]

\* The record of what each user did last: the quiz the user started (its
\* registry key and number of questions), the number of answers the user has
\* given since, and the summaries sent while they were handled.  It is void
\* (n = 0) when the user has started no quiz, has sent another message since
\* the start, or has answered more often than the quiz has questions.
NoRun == [key |-> 0, n |-> 0, answers |-> 0, summaries |-> <<>>]
NextRun(run, u, t, file, log) ==
  [f \in Users |->
     IF u.from # f THEN run[f]
     ELSE IF Starts(u, t, file)
     THEN [key |-> u.chat, n |-> Len(file.content), answers |-> 0, summaries |-> <<>>]
     ELSE IF u.kind = "callback_query" /\ run[f].answers < run[f].n
     THEN [run[f] EXCEPT
             !.answers = @ + 1,
             !.summaries = @ \o SelectSeq(log, LAMBDA e :
                                  e.op = "sendMessage" /\ e.text.kind = "summary")]
     ELSE NoRun]

\* ------------------------------------------------------------------- state
VARIABLES
  user_states,      \* the registry: chat_id -> session
  offset,           \* the cursor of main(), None at first
  pc,               \* where main() is: "get_updates", "for", "handle"; "crashed"
                    \* once an exception has ended it
  batch,            \* the identifiers of the updates of the batch not yet handled
  next_update_id,   \* the platform: the identifier of its next new update
  update,           \* the update the for loop is at, with its identifier and
                    \* the state of questions.json if it was read for it
  now,              \* the value of time.time() when it was handled
  log,              \* the effects of the last step, in order
  history,          \* the record of the quizzes, by registry key
  run,              \* the record of what each user did last
  handled           \* the identifiers of the updates handled, in order

vars ==
  <<user_states, offset, pc, batch, next_update_id, update, now, log, history, run,
    handled>>

Init ==
  /\ user_states = <<>>
  /\ offset = None
  /\ pc = "get_updates"
  /\ batch = <<>>
  /\ next_update_id = FirstUpdateId
  /\ update = [id |-> 0, u |-> NoUpdate, file |-> NotRead]
  /\ now = 0
  /\ log = <<>>
  /\ history = <<>>
  /\ run = [f \in Users |-> NoRun]
  /\ handled = <<>>

\* The answer of the platform to getUpdates with the parameter offset when
\* n new updates have come in: the updates it holds from the identifier
\* offset on, in the order of their identifiers.  Without the parameter it
\* answers with every update it holds, none having been confirmed.
Pending(n) ==
  LET first == IF offset = None THEN FirstUpdateId ELSE offset
      last == next_update_id + n - 1
  IN [i \in 1..(last - first + 1) |-> first + i - 1]

\* get_updates() without its except clause.
get_updates_raises(ok, n) ==
  [result |-> IF ok THEN Pending(n) ELSE <<>>,
   error |-> IF ok THEN "" ELSE "RequestException"]

\* get_updates(offset): what main() gets from it.  A transport failure is
\* caught and gives the empty batch; a success gives the updates the
\* platform holds from the cursor on, n of them new, in order.
get_updates(ok, n) ==
  [result |-> IF ok THEN Pending(n) ELSE <<>>,
   error |-> ""]

\* updates = get_updates(offset), the request ending as ok says with n new
\* updates at the platform.
Fetch(ok, n) ==
  LET updates == get_updates(ok, n)
  IN /\ pc = "get_updates"
     /\ log' = <<Event("getUpdates", 0, NoMessage, <<>>, ok)>>
     /\ update' = [id |-> 0, u |-> NoUpdate, file |-> NotRead]
     /\ IF updates.error # ""
        THEN pc' = "crashed" /\ batch' = <<>>
        ELSE pc' = "for" /\ batch' = updates.result
     /\ UNCHANGED <<user_states, offset, now, history, run, handled>>

\* The request succeeds.
GetUpdates ==
  \E n \in 0..MaxBatch :
    /\ next_update_id + n <= FirstUpdateId + MaxUpdates
    /\ Fetch(TRUE, n)
    /\ next_update_id' = next_update_id + n

\* The request fails.
GetUpdatesFails ==
  /\ Fetch(FALSE, 0)
  /\ UNCHANGED next_update_id

\* The for loop with `offset = update["update_id"]` as its first statement.
NextUpdate_same_offset ==
  /\ pc = "for"
  /\ batch # <<>>
  /\ offset' = Head(batch)
  /\ update' = [id |-> Head(batch), u |-> NoUpdate, file |-> NotRead]
  /\ batch' = Tail(batch)
  /\ log' = <<>>
  /\ pc' = "handle"
  /\ UNCHANGED <<user_states, next_update_id, now, history, run, handled>>

\* The for loop without the assignment to offset.
NextUpdate_keeps_offset ==
  /\ pc = "for"
  /\ batch # <<>>
  /\ update' = [id |-> Head(batch), u |-> NoUpdate, file |-> NotRead]
  /\ batch' = Tail(batch)
  /\ log' = <<>>
  /\ pc' = "handle"
  /\ UNCHANGED <<user_states, offset, next_update_id, now, history, run, handled>>

\* `for update in updates.get("result", [])` with its first statement,
\* offset = update["update_id"] + 1: the loop takes the next update of the
\* batch and moves the cursor past it before it looks at the update.
NextUpdate ==
  /\ pc = "for"
  /\ batch # <<>>
  /\ offset' = Head(batch) + 1
  /\ update' = [id |-> Head(batch), u |-> NoUpdate, file |-> NotRead]
  /\ batch' = Tail(batch)
  /\ log' = <<>>
  /\ pc' = "handle"
  /\ UNCHANGED <<user_states, next_update_id, now, history, run, handled>>

\* The rest of the body of the for loop: the update u, handled at time t,
\* with the question file in state file and the HTTP calls ending as net
\* says.  An exception that leaves the handler ends main().
Handle(u, t, file, net) ==
  /\ pc = "handle"
  /\ LET st == Dispatch(user_states, u, t, file, net)
     IN /\ user_states' = st.us
        /\ log' = st.log
        /\ pc' = IF st.error # "" THEN "crashed" ELSE "for"
        /\ history' = NextHistory(history, user_states, u, t, file, st.log)
        /\ run' = NextRun(run, u, t, file, st.log)
  /\ update' = [update EXCEPT !.u = u, !.file = file]
  /\ now' = t
  /\ handled' = Append(handled, update.id)
  /\ UNCHANGED <<offset, batch, next_update_id>>

\* The outcomes of a handler that makes at most n HTTP calls.
NetFor(n) == {net \in Outcomes : \A i \in 1..MaxCalls : i > n => net[i]}

AllOk == [i \in 1..MaxCalls |-> TRUE]

\* A message older than the threshold.
HandleStaleMessage ==
  /\ pc = "handle"
  /\ \E u \in Messages, t \in Clock :
       Older(u, t) /\ Handle(u, t, NotRead, AllOk)

\* A fresh message without text, or with a text that is no command.
HandleOtherMessage ==
  /\ pc = "handle"
  /\ \E u \in Messages, t \in Clock :
       ~Older(u, t) /\ u.text \notin {"/start", "/quiz"} /\ Handle(u, t, NotRead, AllOk)

\* A fresh /start.
HandleStart ==
  /\ pc = "handle"
  /\ \E u \in Messages, t \in Clock, net \in NetFor(1) :
       ~Older(u, t) /\ u.text = "/start" /\ Handle(u, t, NotRead, net)

\* A fresh /quiz.
HandleQuiz ==
  /\ pc = "handle"
  /\ \E u \in Messages, t \in Clock, file \in Files, net \in NetFor(1) :
       ~Older(u, t) /\ u.text = "/quiz" /\ Handle(u, t, file, net)

\* A callback_query update.
HandleCallback ==
  /\ pc = "handle"
  /\ \E u \in Callbacks, t \in Clock, net \in NetFor(3) :
       Handle(u, t, NotRead, net)

\* An update that is neither a message nor a callback_query.
HandleOtherUpdate ==
  /\ pc = "handle"
  /\ \E u \in Others, t \in Clock :
       Handle(u, t, NotRead, AllOk)

\* time.sleep(1) at the end of the batch, and back to get_updates.
Sleep ==
  /\ pc = "for"
  /\ batch = <<>>
  /\ pc' = "get_updates"
  /\ UNCHANGED <<user_states, offset, batch, next_update_id, update, now, log,
                 history, run, handled>>

Next ==
  \/ GetUpdates
  \/ GetUpdatesFails
  \/ NextUpdate
  \/ HandleStaleMessage
  \/ HandleOtherMessage
  \/ HandleStart
  \/ HandleQuiz
  \/ HandleCallback
  \/ HandleOtherUpdate
  \/ Sleep

Spec == Init /\ [][Next]_vars
\* ================================================================== claims
\* The step handles an update: the body of the for loop runs.
Handles == pc = "handle" /\ pc' # "handle"

\* The step handles a fresh /quiz sent in the chat k.
QuizCommandIn(k) ==
  /\ Handles
  /\ update'.u.kind = "message"
  /\ update'.u.text = "/quiz"
  /\ update'.u.chat = k
  /\ ~Older(update'.u, now')

\* C1, as claimed: while a session for a user is in the registry its
\* current_index never decreases from one state to the next and never
\* exceeds the number of questions of the session.
C1_IndexNeverDecreases ==
  [][\A k \in DOMAIN user_states \cap DOMAIN user_states' :
       /\ user_states'[k].current_question >= user_states[k].current_question
       /\ user_states'[k].current_question <= Len(user_states'[k].questions)]_vars

\* C1, amended: the index of a session in the registry never exceeds the
\* number of questions, and it never decreases from one state to the next
\* except in the handling of a quiz start command for that key, which puts a
\* new session with index 0 in the place of the old one.
C1_IndexNeverDecreasesButOnRestart ==
  [][\A k \in DOMAIN user_states \cap DOMAIN user_states' :
       /\ user_states'[k].current_question <= Len(user_states'[k].questions)
       /\ \/ user_states'[k].current_question >= user_states[k].current_question
          \/ QuizCommandIn(k) /\ user_states'[k].current_question = 0]_vars

\* An answer has moved the index of a session forward.
C1_Witness ==
  /\ pc = "for"
  /\ update.u.kind = "callback_query"
  /\ update.u.from \in DOMAIN user_states
  /\ user_states[update.u.from].current_question > 0

\* C3: an answer handled while the session of its sender is in progress adds
\* exactly 1 to the score when it equals the correct answer of the current
\* question and leaves the score as it is otherwise, an answer that is no
\* option included; no exception ends the handler.  The score of a session
\* the answer completes is the one the summary reports.
C3_ScoreCountsCorrectAnswers ==
  [][(Handles /\ InProgress(user_states, update'.u)) =>
       LET k == update'.u.from
           expected == user_states[k].score
                       + (IF IsCorrect(user_states, update'.u) THEN 1 ELSE 0)
       IN /\ pc' = "for"
          /\ k \in DOMAIN user_states' => user_states'[k].score = expected
          /\ k \notin DOMAIN user_states' =>
               /\ Len(SummariesTo(log', k)) = 1
               /\ SummariesTo(log', k)[1].text.score = expected]_vars

\* A correct answer has given its point, and the session goes on.
C3_Witness ==
  /\ pc = "for"
  /\ update.u.kind = "callback_query"
  /\ update.u.from \in DOMAIN user_states
  /\ user_states[update.u.from].score = 1
  /\ \E i \in 1..Len(log) : log[i].op = "sendMessage" /\ log[i].text = Correct

\* C4: an answer from a user without a session sends one message, the
\* prompt to start again, and leaves the registry as it is.
C4_AnswerWithoutSession ==
  [][(Handles /\ update'.u.kind = "callback_query"
              /\ update'.u.from \notin DOMAIN user_states) =>
       /\ user_states' = user_states
       /\ Len(Sends(log')) = 1
       /\ Sends(log')[1].chat_id = update'.u.from
       /\ Sends(log')[1].text = GameOverPrompt
       /\ pc' = "for"]_vars

\* The prompt has been sent to a user without a session while another key
\* has one.
C4_Witness ==
  /\ pc = "for"
  /\ update.u.kind = "callback_query"
  /\ update.u.from \notin DOMAIN user_states
  /\ DOMAIN user_states # {}
  /\ Len(Sends(log)) = 1
  /\ Sends(log)[1].text = GameOverPrompt

C2_StartThenAllAnswers ==
  \A f \in Users :
    (run[f].n >= 1 /\ run[f].answers = run[f].n) =>
      /\ run[f].key \notin DOMAIN user_states
      /\ \E i \in 1..Len(run[f].summaries) :
           /\ run[f].summaries[i].text.total = run[f].n
           /\ run[f].summaries[i].text.score \in 0..run[f].n

\* The number of correct answers among the answers given.
RECURSIVE CountTrue(_)
CountTrue(answers) ==
  IF answers = <<>> THEN 0
  ELSE (IF Head(answers) THEN 1 ELSE 0) + CountTrue(Tail(answers))

\* C6: for the quiz of a key, no summary is sent before its last answer;
\* with the last answer exactly one is sent, and it reports the number of
\* answers that were the correct answer of the question current when they
\* were given, out of the number of questions.
C6_OneSummaryWithTheScore ==
  \A k \in DOMAIN history :
    LET h == history[k]
    IN /\ Len(h.answers) <= h.n
       /\ Len(h.answers) < h.n => h.summaries = <<>>
       /\ Len(h.answers) = h.n =>
            /\ Len(h.summaries) = 1
            /\ h.summaries[1].text = Summary(CountTrue(h.answers), h.n)

\* A quiz of MaxQ questions is complete, its first answer correct and its
\* second one not, and its summary has been sent in this step.
C6_Witness ==
  /\ pc = "for"
  /\ \E k \in DOMAIN history :
       /\ history[k].n = MaxQ
       /\ Len(history[k].answers) = MaxQ
       /\ history[k].answers[1]
       /\ ~history[k].answers[2]
       /\ SummariesTo(log, k) # <<>>

\* C7, as claimed: an update older than the threshold when it is handled
\* causes no action: nothing is sent and the registry stays as it is.
C7_StaleUpdateIgnored ==
  [][(Handles /\ Older(update'.u, now')) =>
       (log' = <<>> /\ user_states' = user_states)]_vars

\* C7, amended: a message update older than the threshold when it is
\* handled causes no action: nothing is sent and the registry stays as it
\* is.  (A callback update is handled whatever its age.)
C7_StaleMessageIgnored ==
  [][(Handles /\ update'.u.kind = "message" /\ Older(update'.u, now')) =>
       (log' = <<>> /\ user_states' = user_states /\ pc' = "for")]_vars

\* A /quiz older than the threshold has been passed over.
C7_Witness ==
  /\ pc = "for"
  /\ update.u.kind = "message"
  /\ update.u.text = "/quiz"
  /\ Older(update.u, now)
  /\ log = <<>>

NetOf(events) ==
  LET calls == SelectSeq(events, LAMBDA e :
                 e.op \in {"sendMessage", "answerCallbackQuery", "getUpdates"})
  IN [i \in 1..MaxCalls |-> IF i <= Len(calls) THEN calls[i].ok ELSE TRUE]

\* C9: the handling of a callback update begins with the attempt to
\* acknowledge it, before the lookup of the session, a change of the score
\* or a reply; and whether that attempt fails or succeeds, the registry
\* after the update and the rest of the effects are the same.
C9_AcknowledgeFirstAndRegardless ==
  [][(Handles /\ update'.u.kind = "callback_query") =>
       LET acknowledged ==
             handle_answer(HandlerState(user_states), update'.u.from, update'.u.data,
                           [NetOf(log') EXCEPT ![1] = TRUE])
       IN /\ log' # <<>>
          /\ log'[1].op = "answerCallbackQuery"
          /\ \A i \in 2..Len(log') : log'[i].op # "answerCallbackQuery"
          /\ user_states' = acknowledged.us
          /\ Tail(log') = Tail(acknowledged.log)
          /\ pc' = "for"]_vars

\* The acknowledgement has failed and the answer has given its point.
C9_Witness ==
  /\ pc = "for"
  /\ update.u.kind = "callback_query"
  /\ log[1].op = "answerCallbackQuery"
  /\ ~log[1].ok
  /\ \E i \in 2..Len(log) : log[i].op = "score += 1"
  /\ update.u.from \in DOMAIN user_states
  /\ user_states[update.u.from].score = 1

\* C10: a get_updates whose request fails gives the loop an empty batch: the
\* cursor and the registry stay as they are and nothing is sent; the loop
\* goes from an empty batch to the next get_updates; and no step, whatever
\* requests fail in it, ends main().
C10_FetchFailureIsAnEmptyBatch ==
  [][/\ (pc = "get_updates" /\ ~log'[1].ok) =>
          /\ batch' = <<>>
          /\ offset' = offset
          /\ user_states' = user_states
          /\ Sends(log') = <<>>
          /\ pc' = "for"
     /\ (pc = "for" /\ batch = <<>>) => pc' = "get_updates"
     /\ pc' # "crashed"]_vars

\* A request for updates has failed after the cursor had moved and with a
\* session in the registry, and the loop is at its empty batch.
C10_Witness ==
  /\ pc = "for"
  /\ batch = <<>>
  /\ log = <<Event("getUpdates", 0, NoMessage, <<>>, FALSE)>>
  /\ offset # None
  /\ DOMAIN user_states # {}

\* C11: the for loop takes the updates of a batch in arrival order and sets
\* the cursor to the identifier of each plus one before it looks at it;
\* whatever the handling of the update then does (a handler runs, the update
\* is not recognized, a message is discarded as stale), the cursor stays
\* there, so that after a batch it is the identifier of the last update plus
\* one, and no step ever makes the cursor smaller.
C11_CursorPastEveryUpdate ==
  [][/\ (pc = "for" /\ batch # <<>>) =>
          /\ update'.id = Head(batch)
          /\ offset' = Head(batch) + 1
          /\ \A i \in 1..Len(batch') : batch'[i] > Head(batch)
     /\ Handles => offset' = offset /\ offset' = update'.id + 1
     /\ (pc = "for" /\ batch = <<>> /\ update.id # 0) =>
          /\ offset = update.id + 1
          /\ offset = next_update_id
     /\ offset # None => offset' # None /\ offset' >= offset]_vars

\* A batch of two updates has been gone through, the second of them a
\* message discarded as stale, and the cursor is past it.
C11_Witness ==
  /\ pc = "for"
  /\ batch = <<>>
  /\ update.id = FirstUpdateId + 1
  /\ update.u.kind = "message"
  /\ Stale(update.u, now)
  /\ log = <<>>
  /\ offset = FirstUpdateId + 2

\* The number of times the update with identifier id has been handled.
TimesHandled(id) ==
  Cardinality({i \in 1..Len(handled) : handled[i] = id})

\* C12: the platform answering with the updates from the cursor on, every
\* update is handled at most once over all the iterations of the loop, and
\* the updates are handled in the order of their identifiers.
C12_HandledAtMostOnce ==
  /\ \A i \in 1..Len(handled) : TimesHandled(handled[i]) = 1
  /\ \A i, j \in 1..Len(handled) : i < j => handled[i] < handled[j]

\* Updates of two requests have been handled, one after the other, the
\* cursor being past the last of them and the batch at its end.
C12_Witness ==
  /\ pc = "for"
  /\ Len(handled) >= 2
  /\ update.id = handled[Len(handled)]
  /\ handled[1] = FirstUpdateId
  /\ offset = next_update_id
  /\ batch = <<>>
  /\ update.id > FirstUpdateId + 1

\* The one message of the log is question 0 of the list questions, sent to k
\* with one row of buttons, a button for each option.
SendsFirstQuestion(events, k, questions) ==
  /\ Len(Sends(events)) = 1
  /\ Sends(events)[1].chat_id = k
  /\ Sends(events)[1].text = QuestionText(questions[1].question)
  /\ Len(Sends(events)[1].markup) = 1
  /\ Sends(events)[1].markup[1] = questions[1].options

\* C13: a fresh /quiz for a key without a session, the question file giving
\* a list with at least one question, puts a session with score 0, index 0
\* and that list under the key and sends exactly one message, question 0
\* with a button for each of its options, in the handling of that update;
\* whether the send succeeds or not, nothing else is sent.
C13_StartWithoutSession ==
  [][\A k \in Keys :
       (/\ QuizCommandIn(k)
        /\ k \notin DOMAIN user_states
        /\ update'.file.error = ""
        /\ update'.file.content # <<>>) =>
          /\ pc' = "for"
          /\ user_states' =
               Store(user_states, k,
                     [score |-> 0, current_question |-> 0,
                      questions |-> update'.file.content])
          /\ SendsFirstQuestion(log', k, update'.file.content)
          /\ log'[1].op = "create"]_vars

\* A quiz has been started under a key that had no session, and its first
\* question sent.
C13_Witness ==
  /\ pc = "for"
  /\ update.u.kind = "message"
  /\ update.u.text = "/quiz"
  /\ update.u.chat \in DOMAIN user_states
  /\ user_states[update.u.chat].current_question = 0
  /\ Len(log) = 2
  /\ log[1].op = "create"
  /\ log[2].op = "sendMessage"
  /\ log[2].text.kind = "question"
  /\ Len(log[2].markup[1]) = 2

\* The one message of the log is the apology, sent to k.
SendsUnavailable(events, k) ==
  /\ Len(events) = 1
  /\ events[1].op = "sendMessage"
  /\ events[1].chat_id = k
  /\ events[1].text = Unavailable

\* The step replaces the session of k by a fresh one with the list questions
\* and sends its question 0.
Restarts(k, questions) ==
  /\ user_states' =
       Store(user_states, k,
             [score |-> 0, current_question |-> 0, questions |-> questions])
  /\ SendsFirstQuestion(log', k, questions)
  /\ log'[1].op = "replace"

StartOrAnswer ==
  /\ Handles
  /\ \/ update'.u.kind = "callback_query"
     \/ \E k \in Keys : QuizCommandIn(k)

\* The log with the outcome of every HTTP call set to success.
AsIfSent(events) == [i \in 1..Len(events) |-> [events[i] EXCEPT !.ok = TRUE]]

\* C14: a failed send is swallowed and not retried, and the registry after a
\* start or an answer does not depend on the outcomes of its sends: the step
\* ends without an exception, its registry and its effects, outcomes aside,
\* are those of the same step with every call succeeding, and no message is
\* sent twice in it.
C14_SendFailureChangesNothing ==
  [][StartOrAnswer =>
       LET sent == Dispatch(user_states, update'.u, now', update'.file, AllOk)
       IN /\ pc' = "for"
          /\ user_states' = sent.us
          /\ AsIfSent(log') = sent.log
          /\ \A i, j \in 1..Len(Sends(log')) :
               i # j => Sends(log')[i].text # Sends(log')[j].text]_vars

\* An answer has been handled of which both sends failed, the notification
\* and the next question, and the index of its session has moved on.
C14_Witness ==
  /\ pc = "for"
  /\ update.u.kind = "callback_query"
  /\ update.u.from \in DOMAIN user_states
  /\ user_states[update.u.from].current_question = 1
  /\ Len(Sends(log)) = 2
  /\ \A i \in 1..2 : ~Sends(log)[i].ok

\* What a log did, step by step: the kind of the message for a send, the
\* method or the statement otherwise.
Steps(events) ==
  [i \in 1..Len(events) |->
     IF events[i].op = "sendMessage" THEN events[i].text.kind ELSE events[i].op]

\* The steps of an answer from its notification on: those after the
\* acknowledgement, the lookup and the increment of the score.
FromNotification(events) ==
  SelectSeq(Steps(events),
            LAMBDA s : s \notin {"answerCallbackQuery", "lookup", "score += 1"})

\* C15: the handling of an answer to a quiz in progress sends the
\* notification, correct or incorrect, then increments the index, then
\* either sends the next question and keeps the session or, the index having
\* reached the number of questions, sends the summary and only then removes
\* the session, without sending any question.
C15_OrderWithinAnAnswer ==
  [][(Handles /\ InProgress(user_states, update'.u)) =>
       LET k == update'.u.from
           state == user_states[k]
           notice == IF IsCorrect(user_states, update'.u)
                     THEN "correct" ELSE "incorrect"
       IN /\ \A i \in 1..Len(log') : log'[i].chat_id = k
          /\ IF state.current_question + 1 >= Len(state.questions)
             THEN /\ FromNotification(log') =
                       <<notice, "current_question += 1", "summary", "del">>
                  /\ k \notin DOMAIN user_states'
             ELSE /\ FromNotification(log') =
                       <<notice, "current_question += 1", "question">>
                  /\ k \in DOMAIN user_states'
                  /\ user_states'[k].current_question =
                       state.current_question + 1]_vars

\* The last answer of a quiz of two questions has been handled: the
\* notification, the increment, the summary and the removal, in this order.
C15_Witness ==
  /\ pc = "for"
  /\ update.u.kind = "callback_query"
  /\ update.u.from \notin DOMAIN user_states
  /\ Len(log) >= 4
  /\ log[Len(log)].op = "del"
  /\ log[Len(log) - 1].text.kind = "summary"
  /\ log[Len(log) - 1].text.total = 2
  /\ log[Len(log) - 2].op = "current_question += 1"
  /\ log[Len(log) - 3].text.kind \in {"correct", "incorrect"}

\* C17, as claimed: an answer of a user who has started a quiz, in any chat,
\* and has sent no other message since, looks the session up under the key
\* the start stored it under and is applied to that session: the index of
\* the session moves on by 1, or the session, at its end, is removed.
C17_AnswerFindsTheSessionOfTheStart ==
  [][\A f \in Users :
       (/\ Handles
        /\ update'.u.kind = "callback_query"
        /\ update'.u.from = f
        /\ run[f].n >= 1
        /\ run[f].answers < run[f].n) =>
          LET k == run[f].key
          IN /\ \E i \in 1..Len(log') :
                  log'[i].op = "lookup" /\ log'[i].chat_id = k
             /\ k \in DOMAIN user_states
             /\ \/ k \notin DOMAIN user_states'
                \/ user_states'[k].current_question =
                     user_states[k].current_question + 1]_vars

\* C18: a callback handled while the session of its sender is in progress
\* is taken as the answer to the question the session is at, whatever the
\* question of the message whose button was pressed: it is compared with
\* the correct answer of the current question, the index is incremented
\* once, by 1, and the quiz has one answer more.
C18_AnswerToTheCurrentQuestion ==
  [][(Handles /\ InProgress(user_states, update'.u)) =>
       LET k == update'.u.from
           state == user_states[k]
           current == state.questions[state.current_question + 1]
       IN /\ Sends(log')[1].text =
               IF update'.u.data = current.answer
               THEN Correct ELSE Incorrect(current.answer)
          /\ Len(SelectSeq(log', LAMBDA e : e.op = "current_question += 1")) = 1
          /\ IF k \in DOMAIN user_states'
             THEN user_states'[k].current_question = state.current_question + 1
             ELSE Len(state.questions) = state.current_question + 1
          /\ Len(history'[k].answers) = Len(history[k].answers) + 1
          /\ Len(history'[k].answers) = state.current_question + 1]_vars

\* The button of question 1 has been pressed while the session was at
\* question 2: the press was the second answer of the quiz, compared with
\* the correct answer of question 2, and question 1 has two answers.
C18_Witness ==
  /\ pc = "for"
  /\ update.u.kind = "callback_query"
  /\ update.u.message = 1
  /\ update.u.from \in DOMAIN history
  /\ Len(history[update.u.from].answers) = 2
  /\ Len(Sends(log)) = 2
  /\ Sends(log)[1].text = Incorrect(Question(2).answer)
  /\ update.u.data = Question(1).answer

\* C19: the handling of an update of a user, whatever the update (a start,
\* an answer, /start, another text, a stale message, an update of another
\* kind), changes nothing for the others: the key of every other user has a
\* session after it exactly if it had one before, and every session under
\* another key, a group's included, is still there with the score and the
\* index it had.
C19_OtherSessionsUntouched ==
  [][Handles =>
       \A k \in Keys \ {update'.u.from} :
         /\ k \in Users => (k \in DOMAIN user_states' <=> k \in DOMAIN user_states)
         /\ k \in DOMAIN user_states =>
              /\ k \in DOMAIN user_states'
              /\ user_states'[k].score = user_states[k].score
              /\ user_states'[k].current_question =
                   user_states[k].current_question]_vars

\* The last answer of a user's quiz has been handled, and the session of
\* the other user, started in between, is in the registry at its start.
C19_Witness ==
  /\ pc = "for"
  /\ update.u.kind = "callback_query"
  /\ update.u.from \notin DOMAIN user_states
  /\ Len(log) > 0
  /\ log[Len(log)].op = "del"
  /\ \E k \in Users \ {update.u.from} :
       /\ k \in DOMAIN user_states
       /\ user_states[k].current_question = 0

\* C20: in every reachable state the score of every session of the registry
\* is at least 0 and at most its index, and the score a summary reports is
\* at most the number of answers given in its quiz.
C20_ScoreAtMostIndex ==
  /\ \A k \in DOMAIN user_states :
       /\ 0 <= user_states[k].score
       /\ user_states[k].score <= user_states[k].current_question
  /\ \A k \in DOMAIN history :
       \A i \in 1..Len(history[k].summaries) :
         /\ 0 <= history[k].summaries[i].text.score
         /\ history[k].summaries[i].text.score <= Len(history[k].answers)

\* A quiz of two questions has ended with both answers correct: its session
\* went through score 1 at index 1, and the summary reports 2, the number of
\* the answers given.
C20_Witness ==
  /\ pc = "for"
  /\ update.u.kind = "callback_query"
  /\ update.u.from \in DOMAIN history
  /\ update.u.from \notin DOMAIN user_states
  /\ history[update.u.from].answers = <<TRUE, TRUE>>
  /\ Len(history[update.u.from].summaries) = 1
  /\ history[update.u.from].summaries[1].text.score = 2

====
